---- MODULE Spec2Model ----
(***************************************************************************)
(* AutoLamella workflow runners (workflows/runners.py) and the napari      *)
(* milling-pattern drawing (ui/napari/patterns.py) of fibsem-os.           *)
(*                                                                         *)
(* The runners are modelled as one sequential program: a top-level call    *)
(* picks a runner and its arguments, every later step is one loop          *)
(* iteration head, one stage function or one end_of_stage_update, and the  *)
(* calls the runner makes are appended to `log`.                           *)
(*                                                                         *)
(* Specifications: Spec (the runners, called one after the other),         *)
(* SpecRepeat (a runner called twice in a row), SpecSpotBurn               *)
(* (run_spot_burn_workflow), SpecDraw (draw_milling_patterns_in_napari)    *)
(* and SpecPlacement (validate_pattern_placement and                       *)
(* is_pattern_placement_valid).                                            *)
(***************************************************************************)
EXTENDS Integers, Sequences, FiniteSets, TLC

\* Largest number of positions of an experiment.
MaxPositions == 2

(***************************************************************************)
(* structures.py (not in src/): the stage enum, values by auto().          *)
(***************************************************************************)
AutoLamellaStage ==
    << "Created", "PositionReady", "MillTrench", "MillUndercut",
       "LiftoutLamella", "LandLamella", "SetupLamella", "MillRough",
       "SetupPolishing", "MillPolishing", "Finished" >>

Stages == { AutoLamellaStage[i] : i \in DOMAIN AutoLamellaStage }

\* stage.value
StageValue(s) == CHOOSE i \in DOMAIN AutoLamellaStage : AutoLamellaStage[i] = s

\* AutoLamellaStage(v)
StageOfValue(v) == AutoLamellaStage[v]

(***************************************************************************)
(* runners.py module constants                                             *)
(***************************************************************************)
WORKFLOW_STAGES ==
    [ MillTrench     |-> "mill_trench",
      MillUndercut   |-> "mill_undercut",
      SetupLamella   |-> "setup_lamella",
      MillRough      |-> "mill_lamella",
      SetupPolishing |-> "setup_polishing",
      MillPolishing  |-> "mill_lamella" ]

\* the stages in the opposite order
LAMELLA_MILLING_WORKFLOW_reversed == << "MillPolishing", "SetupPolishing", "MillRough" >>

LAMELLA_MILLING_WORKFLOW == << "MillRough", "SetupPolishing", "MillPolishing" >>

\* The runners that can be called from outside (METHOD_WORKFLOWS_FN and the
\* module's other public functions).
Runners == { "run_trench_milling", "run_undercut_milling", "run_setup_lamella",
             "run_lamella_milling", "run_autolamella", "run_autolamella_waffle" }

\* protocol.supervision: stage -> bool, with the stages of `keys` free
SupervisionChoices(keys) ==
    { [ s \in Stages |-> s \in sup ] : sup \in SUBSET keys }

\* stages_to_complete arguments: the method workflows and partial selections
\* of them.
StagesToCompleteChoices ==
    { {},
      { "MillTrench" },
      { "MillTrench", "MillUndercut" },
      { "SetupLamella" },
      { "MillPolishing" },
      { "MillRough", "MillPolishing" },
      { "SetupLamella", "MillRough", "SetupPolishing", "MillPolishing" },
      { "MillTrench", "MillUndercut", "SetupLamella",
        "MillRough", "SetupPolishing", "MillPolishing" } }

\* The runners with a stages_to_complete parameter; the others are called
\* without one.
TakesStagesToComplete ==
    { "run_trench_milling", "run_lamella_milling", "run_autolamella",
      "run_autolamella_waffle" }

\* The keys of protocol.supervision each runner reads, itself or through the
\* runners it calls; the flags it does not read are left False.
SupervisionRead ==
    [ run_trench_milling     |-> {},
      run_undercut_milling   |-> {},
      run_setup_lamella      |-> {},
      run_lamella_milling    |-> {},
      run_autolamella        |-> { "SetupLamella" },
      run_autolamella_waffle |-> { "MillUndercut", "SetupLamella" } ]

Lamella == [ workflow : Stages, is_failure : BOOLEAN ]

PositionLists == UNION { [ 1..n -> Lamella ] : n \in 0..MaxPositions }

VARIABLES
    positions,           \* experiment.positions
    supervision,         \* protocol.supervision
    stages_to_complete,  \* the stages_to_complete argument of the top-level call
    runner,              \* the runner called from outside, "none" before a call
    pc,                  \* the statement the program is at
    stack,               \* return labels of the runner calls in progress
    lamella,             \* the local variable `lamella` (index), 0 = unassigned
    idx,                 \* positions already taken by the running for loop
    stage_i,             \* stages already taken by run_lamella_milling's outer loop
    log,                 \* calls made since the top-level call started
    entry,               \* experiment.positions when the top-level call started
    prompt_positions,    \* experiment.positions when the last prompt was shown
    layers,              \* viewer.layers
    last_draw,           \* the arguments of the last draw_milling_patterns_in_napari
    placement,           \* the last placement check: its arguments and what it returned
    first_call           \* when the running call repeats one: that call's positions and log

workflow_vars == << positions, supervision, stages_to_complete, runner, pc, stack,
                    lamella, idx, stage_i, log, entry, prompt_positions >>

napari_vars == << layers, last_draw, placement >>

vars == << workflow_vars, napari_vars, first_call >>

(***************************************************************************)
(* Collaborators of the runners (workflows/core.py, workflows/ui.py,       *)
(* structures.py; not in src/).                                            *)
(***************************************************************************)
Event(op, pos, stage, arg, ret) ==
    [ op |-> op, pos |-> pos, stage |-> stage, arg |-> arg, ret |-> ret ]

\* start_of_stage_update(microscope, lamella, next_stage): the position's
\* workflow becomes next_stage.
start_of_stage_update(ps, i, next_stage) ==
    [ ps EXCEPT ![i].workflow = next_stage ]

StartEvent(ps, i, next_stage) ==
    Event("start_of_stage_update", i, next_stage, ps[i].workflow, TRUE)

\* A stage function (mill_trench, mill_undercut, setup_lamella, mill_lamella,
\* setup_polishing): the position may come back marked as a failure.
stage_function(ps, i, failed) ==
    [ ps EXCEPT ![i].is_failure = ps[i].is_failure \/ failed ]

FnEvent(ps, i, fn, failed) ==
    Event("stage_function", i, ps[i].workflow, fn, ~failed)

\* end_of_stage_update(microscope, experiment, lamella): saves the experiment.
EndEvent(ps, i) ==
    Event("end_of_stage_update", i, ps[i].workflow, "", TRUE)

AskEvent(msg, ret) == Event("ask_user", 0, "", msg, ret)

\* experiment.at_stage(stage)
at_stage(ps, stage) == { i \in DOMAIN ps : ps[i].workflow = stage }

(***************************************************************************)
(* Initial state: an experiment loaded with any list of positions, no      *)
(* runner called yet.                                                      *)
(***************************************************************************)
NoDraw ==
    [ called |-> FALSE, milling_stages |-> << >>,
      background_milling_stages |-> << >>, draw_crosshair |-> FALSE ]

\* the running call is not the repetition of another
NoFirstCall == [ made |-> FALSE, entry |-> << >>, log |-> << >> ]

\* no placement check made yet
NoPlacement == [ fn |-> "none", shape |-> << >>, define |-> << >>, ret |-> "None" ]

NoSupervision == [ s \in Stages |-> FALSE ]

Init ==
    /\ positions \in PositionLists
    /\ supervision = NoSupervision
    /\ stages_to_complete = {}
    /\ runner = "none"
    /\ pc = "idle"
    /\ stack = << >>
    /\ lamella = 0
    /\ idx = 0
    /\ stage_i = 0
    /\ log = << >>
    /\ entry = positions
    /\ prompt_positions = << >>
    /\ layers = << >>
    /\ last_draw = NoDraw
    /\ placement = NoPlacement
    /\ first_call = NoFirstCall

\* The first statement of each runner.
EntryLabel ==
    [ run_trench_milling     |-> "trench_for",
      run_undercut_milling   |-> "undercut_for",
      run_setup_lamella      |-> "setup_for",
      run_lamella_milling    |-> "milling_stage",
      run_autolamella        |-> "autolamella_setup",
      run_autolamella_waffle |-> "waffle_trench" ]

\* A call of a runner from outside, with its protocol and stages_to_complete.
Call ==
    /\ pc \in { "idle", "done", "error" }
    /\ \E r \in Runners :
       \E sup \in SupervisionChoices(SupervisionRead[r]),
          stc \in (IF r \in TakesStagesToComplete
                   THEN StagesToCompleteChoices ELSE { {} }) :
          /\ runner' = r
          /\ supervision' = sup
          /\ stages_to_complete' = stc
          /\ pc' = EntryLabel[r]
    /\ stack' = << >>
    /\ lamella' = 0
    /\ idx' = 0
    /\ stage_i' = 0
    /\ log' = << >>
    /\ entry' = positions
    /\ prompt_positions' = << >>
    /\ UNCHANGED positions
    /\ UNCHANGED << napari_vars, first_call >>

Min(S) == CHOOSE x \in S : \A y \in S : x <= y

\* `return experiment`: back to the caller's next statement, or out.
ReturnPc == IF stack = << >> THEN "done" ELSE Head(stack)
ReturnStack == IF stack = << >> THEN << >> ELSE Tail(stack)

\* The call of a runner by another runner: fresh locals, return label pushed.
CallRunner(label, ret_label) ==
    /\ pc' = label
    /\ stack' = << ret_label >> \o stack
    /\ lamella' = 0
    /\ idx' = 0
    /\ stage_i' = 0

(***************************************************************************)
(* run_trench_milling                                                      *)
(***************************************************************************)
\* milling only when MillTrench is in stages_to_complete
run_trench_milling_for_selected ==
    /\ pc = "trench_for"
    /\ LET ready == { i \in (idx + 1)..Len(positions) :
                         /\ "MillTrench" \in stages_to_complete
                         /\ positions[i].workflow = "PositionReady"
                         /\ ~positions[i].is_failure }
           last == IF idx < Len(positions) THEN Len(positions) ELSE lamella
       IN IF ready # {}
          THEN /\ idx' = Min(ready)
               /\ lamella' = Min(ready)
               /\ positions' = start_of_stage_update(positions, Min(ready), "MillTrench")
               /\ log' = Append(log, StartEvent(positions, Min(ready), "MillTrench"))
               /\ pc' = "trench_fn"
               /\ UNCHANGED stack
          ELSE /\ idx' = Len(positions)
               /\ lamella' = last
               /\ IF last = 0
                  THEN pc' = "error" /\ stack' = << >>
                  ELSE pc' = ReturnPc /\ stack' = ReturnStack
               /\ UNCHANGED << positions, log >>
    /\ UNCHANGED << supervision, stages_to_complete, runner, stage_i, entry,
                    prompt_positions >>
    /\ UNCHANGED << napari_vars, first_call >>

\* for lamella in experiment.positions: the positions that are not at
\* PositionReady or are failed are passed over; for the next ready one,
\* start_of_stage_update(MillTrench). After the loop, log_status_message(lamella)
\* reads the loop variable, which is unbound if the list was empty.
run_trench_milling_for ==
    /\ pc = "trench_for"
    /\ LET ready == { i \in (idx + 1)..Len(positions) :
                         /\ positions[i].workflow = "PositionReady"
                         /\ ~positions[i].is_failure }
           last == IF idx < Len(positions) THEN Len(positions) ELSE lamella
       IN IF ready # {}
          THEN /\ idx' = Min(ready)
               /\ lamella' = Min(ready)
               /\ positions' = start_of_stage_update(positions, Min(ready), "MillTrench")
               /\ log' = Append(log, StartEvent(positions, Min(ready), "MillTrench"))
               /\ pc' = "trench_fn"
               /\ UNCHANGED stack
          ELSE \* the loop is over; return experiment
               /\ idx' = Len(positions)
               /\ lamella' = last
               /\ IF last = 0
                  THEN pc' = "error" /\ stack' = << >>
                  ELSE pc' = ReturnPc /\ stack' = ReturnStack
               /\ UNCHANGED << positions, log >>
    /\ UNCHANGED << supervision, stages_to_complete, runner, stage_i, entry,
                    prompt_positions >>
    /\ UNCHANGED << napari_vars, first_call >>

\* lamella = mill_trench(microscope, protocol, lamella, parent_ui)
run_trench_milling_fn ==
    /\ pc = "trench_fn"
    /\ \E failed \in BOOLEAN :
          /\ positions' = stage_function(positions, lamella, failed)
          /\ log' = Append(log, FnEvent(positions, lamella, "mill_trench", failed))
    /\ pc' = "trench_end"
    /\ UNCHANGED << supervision, stages_to_complete, runner, stack, lamella, idx,
                    stage_i, entry, prompt_positions >>
    /\ UNCHANGED << napari_vars, first_call >>

\* experiment = end_of_stage_update(microscope, experiment, lamella, parent_ui)
run_trench_milling_end ==
    /\ pc = "trench_end"
    /\ log' = Append(log, EndEvent(positions, lamella))
    /\ pc' = "trench_for"
    /\ UNCHANGED << positions, supervision, stages_to_complete, runner, stack,
                    lamella, idx, stage_i, entry, prompt_positions >>
    /\ UNCHANGED << napari_vars, first_call >>

(***************************************************************************)
(* run_undercut_milling                                                    *)
(***************************************************************************)
\* for lamella in experiment.positions: if MillTrench and not failed,
\* start_of_stage_update(MillUndercut); log_status_message is inside the loop.
run_undercut_milling_for ==
    /\ pc = "undercut_for"
    /\ LET ready == { i \in (idx + 1)..Len(positions) :
                         /\ positions[i].workflow = "MillTrench"
                         /\ ~positions[i].is_failure }
           last == IF idx < Len(positions) THEN Len(positions) ELSE lamella
       IN IF ready # {}
          THEN /\ idx' = Min(ready)
               /\ lamella' = Min(ready)
               /\ positions' = start_of_stage_update(positions, Min(ready), "MillUndercut")
               /\ log' = Append(log, StartEvent(positions, Min(ready), "MillUndercut"))
               /\ pc' = "undercut_fn"
               /\ UNCHANGED stack
          ELSE \* the loop is over; return experiment
               /\ idx' = Len(positions)
               /\ lamella' = last
               /\ pc' = ReturnPc
               /\ stack' = ReturnStack
               /\ UNCHANGED << positions, log >>
    /\ UNCHANGED << supervision, stages_to_complete, runner, stage_i, entry,
                    prompt_positions >>
    /\ UNCHANGED << napari_vars, first_call >>

\* lamella = mill_undercut(microscope, protocol, lamella, parent_ui)
run_undercut_milling_fn ==
    /\ pc = "undercut_fn"
    /\ \E failed \in BOOLEAN :
          /\ positions' = stage_function(positions, lamella, failed)
          /\ log' = Append(log, FnEvent(positions, lamella, "mill_undercut", failed))
    /\ pc' = "undercut_end"
    /\ UNCHANGED << supervision, stages_to_complete, runner, stack, lamella, idx,
                    stage_i, entry, prompt_positions >>
    /\ UNCHANGED << napari_vars, first_call >>

\* experiment = end_of_stage_update(...); log_status_message(lamella, "NULL_END")
run_undercut_milling_end ==
    /\ pc = "undercut_end"
    /\ log' = Append(log, EndEvent(positions, lamella))
    /\ pc' = "undercut_for"
    /\ UNCHANGED << positions, supervision, stages_to_complete, runner, stack,
                    lamella, idx, stage_i, entry, prompt_positions >>
    /\ UNCHANGED << napari_vars, first_call >>

(***************************************************************************)
(* run_setup_lamella                                                       *)
(***************************************************************************)
\* with a stage past SetupLamella among the stages setup restarts from
SetupLamellaPredecessors_restart ==
    { "PositionReady", "MillUndercut", "LandLamella", "MillRough" }

\* with SetupLamella itself among the stages setup is run from
SetupLamellaPredecessors_again ==
    { "PositionReady", "MillUndercut", "LandLamella", "SetupLamella" }

SetupLamellaPredecessors == { "PositionReady", "MillUndercut", "LandLamella" }

\* for lamella in experiment.positions: if at one of the three predecessor
\* stages and not failed, start_of_stage_update(SetupLamella); after the loop,
\* log_status_message.
run_setup_lamella_for ==
    /\ pc = "setup_for"
    /\ LET ready == { i \in (idx + 1)..Len(positions) :
                         /\ positions[i].workflow \in SetupLamellaPredecessors
                         /\ ~positions[i].is_failure }
           last == IF idx < Len(positions) THEN Len(positions) ELSE lamella
       IN IF ready # {}
          THEN /\ idx' = Min(ready)
               /\ lamella' = Min(ready)
               /\ positions' = start_of_stage_update(positions, Min(ready), "SetupLamella")
               /\ log' = Append(log, StartEvent(positions, Min(ready), "SetupLamella"))
               /\ pc' = "setup_fn"
               /\ UNCHANGED stack
          ELSE \* the loop is over; return experiment
               /\ idx' = Len(positions)
               /\ lamella' = last
               /\ IF last = 0
                  THEN pc' = "error" /\ stack' = << >>
                  ELSE pc' = ReturnPc /\ stack' = ReturnStack
               /\ UNCHANGED << positions, log >>
    /\ UNCHANGED << supervision, stages_to_complete, runner, stage_i, entry,
                    prompt_positions >>
    /\ UNCHANGED << napari_vars, first_call >>

\* lamella = setup_lamella(microscope, protocol, lamella, parent_ui)
run_setup_lamella_fn ==
    /\ pc = "setup_fn"
    /\ \E failed \in BOOLEAN :
          /\ positions' = stage_function(positions, lamella, failed)
          /\ log' = Append(log, FnEvent(positions, lamella, "setup_lamella", failed))
    /\ pc' = "setup_end"
    /\ UNCHANGED << supervision, stages_to_complete, runner, stack, lamella, idx,
                    stage_i, entry, prompt_positions >>
    /\ UNCHANGED << napari_vars, first_call >>

\* experiment = end_of_stage_update(microscope, experiment, lamella, parent_ui)
run_setup_lamella_end ==
    /\ pc = "setup_end"
    /\ log' = Append(log, EndEvent(positions, lamella))
    /\ pc' = "setup_for"
    /\ UNCHANGED << positions, supervision, stages_to_complete, runner, stack,
                    lamella, idx, stage_i, entry, prompt_positions >>
    /\ UNCHANGED << napari_vars, first_call >>

(***************************************************************************)
(* run_lamella_milling                                                     *)
(***************************************************************************)
\* returning at once when no stage of the workflow is in stages_to_complete
run_lamella_milling_stage_none_selected ==
    /\ pc = "milling_stage"
    /\ LET todo == { k \in (stage_i + 1)..Len(LAMELLA_MILLING_WORKFLOW) :
                        LAMELLA_MILLING_WORKFLOW[k] \in stages_to_complete }
       IN IF todo # {}
          THEN /\ stage_i' = Min(todo)
               /\ pc' = "milling_for"
               /\ UNCHANGED stack
          ELSE /\ stage_i' = Len(LAMELLA_MILLING_WORKFLOW)
               /\ IF stage_i = 0
                  THEN pc' = ReturnPc /\ stack' = ReturnStack
                  ELSE pc' = "finish_for" /\ UNCHANGED stack
    /\ idx' = 0
    /\ UNCHANGED << positions, supervision, stages_to_complete, runner,
                    lamella, log, entry, prompt_positions >>
    /\ UNCHANGED << napari_vars, first_call >>

\* for stage in LAMELLA_MILLING_WORKFLOW: the stages not in stages_to_complete
\* are skipped (continue); the next one that is starts the loop over the
\* positions; after the last stage, the finish loop.
run_lamella_milling_stage ==
    /\ pc = "milling_stage"
    /\ LET todo == { k \in (stage_i + 1)..Len(LAMELLA_MILLING_WORKFLOW) :
                        LAMELLA_MILLING_WORKFLOW[k] \in stages_to_complete }
       IN IF todo # {}
          THEN /\ stage_i' = Min(todo)
               /\ pc' = "milling_for"
          ELSE /\ stage_i' = Len(LAMELLA_MILLING_WORKFLOW)
               /\ pc' = "finish_for"
    /\ idx' = 0
    /\ UNCHANGED << positions, supervision, stages_to_complete, runner, stack,
                    lamella, log, entry, prompt_positions >>
    /\ UNCHANGED << napari_vars, first_call >>

\* without the special case: every stage asks for the stage one value below
is_previous_completed_strict(stage, l) ==
    l.workflow = StageOfValue(StageValue(stage) - 1)

\* MillPolishing from any stage at or after SetupLamella and before it
is_previous_completed_loose(stage, l) ==
    IF stage = "MillPolishing"
    THEN l.workflow \in { "SetupLamella", "MillRough", "SetupPolishing" }
    ELSE l.workflow = StageOfValue(StageValue(stage) - 1)

\* is_previous_completed, for the stage and the position examined
is_previous_completed(stage, l) ==
    IF stage = "MillPolishing"
    THEN l.workflow \in { "MillRough", "SetupPolishing" }
    ELSE \* stage in [MillRough, SetupPolishing]
         l.workflow = StageOfValue(StageValue(stage) - 1)

\* without the failure check
is_ready_ignoring_failure(stage, l) == is_previous_completed(stage, l)

is_ready(stage, l) == is_previous_completed(stage, l) /\ ~l.is_failure

\* for lamella in experiment.positions: if is_ready, start_of_stage_update(stage)
run_lamella_milling_for ==
    /\ pc = "milling_for"
    /\ LET stage == LAMELLA_MILLING_WORKFLOW[stage_i]
           ready == { i \in (idx + 1)..Len(positions) : is_ready(stage, positions[i]) }
           last == IF idx < Len(positions) THEN Len(positions) ELSE lamella
       IN IF ready # {}
          THEN /\ idx' = Min(ready)
               /\ lamella' = Min(ready)
               /\ positions' = start_of_stage_update(positions, Min(ready), stage)
               /\ log' = Append(log, StartEvent(positions, Min(ready), stage))
               /\ pc' = "milling_fn"
          ELSE \* the inner loop is over; next stage
               /\ idx' = Len(positions)
               /\ lamella' = last
               /\ pc' = "milling_stage"
               /\ UNCHANGED << positions, log >>
    /\ UNCHANGED << supervision, stages_to_complete, runner, stack, stage_i, entry,
                    prompt_positions >>
    /\ UNCHANGED << napari_vars, first_call >>

\* lamella = WORKFLOW_STAGES[lamella.workflow](microscope, protocol, lamella, parent_ui)
run_lamella_milling_fn ==
    /\ pc = "milling_fn"
    /\ \E failed \in BOOLEAN :
          /\ positions' = stage_function(positions, lamella, failed)
          /\ log' = Append(log, FnEvent(positions, lamella,
                                        WORKFLOW_STAGES[positions[lamella].workflow],
                                        failed))
    /\ pc' = "milling_end"
    /\ UNCHANGED << supervision, stages_to_complete, runner, stack, lamella, idx,
                    stage_i, entry, prompt_positions >>
    /\ UNCHANGED << napari_vars, first_call >>

\* experiment = end_of_stage_update(microscope, experiment, lamella, parent_ui)
run_lamella_milling_end ==
    /\ pc = "milling_end"
    /\ log' = Append(log, EndEvent(positions, lamella))
    /\ pc' = "milling_for"
    /\ UNCHANGED << positions, supervision, stages_to_complete, runner, stack,
                    lamella, idx, stage_i, entry, prompt_positions >>
    /\ UNCHANGED << napari_vars, first_call >>

\* finish: for lamella in experiment.positions: if MillPolishing and not failed,
\* start_of_stage_update(Finished); after the loop, log_status_message.
run_lamella_milling_finish_for ==
    /\ pc = "finish_for"
    /\ LET ready == { i \in (idx + 1)..Len(positions) :
                         /\ positions[i].workflow = "MillPolishing"
                         /\ ~positions[i].is_failure }
           last == IF idx < Len(positions) THEN Len(positions) ELSE lamella
       IN IF ready # {}
          THEN /\ idx' = Min(ready)
               /\ lamella' = Min(ready)
               /\ positions' = start_of_stage_update(positions, Min(ready), "Finished")
               /\ log' = Append(log, StartEvent(positions, Min(ready), "Finished"))
               /\ pc' = "finish_end"
               /\ UNCHANGED stack
          ELSE \* the loop is over; return experiment
               /\ idx' = Len(positions)
               /\ lamella' = last
               /\ IF last = 0
                  THEN pc' = "error" /\ stack' = << >>
                  ELSE pc' = ReturnPc /\ stack' = ReturnStack
               /\ UNCHANGED << positions, log >>
    /\ UNCHANGED << supervision, stages_to_complete, runner, stage_i, entry,
                    prompt_positions >>
    /\ UNCHANGED << napari_vars, first_call >>

\* the finish loop without its end_of_stage_update
run_lamella_milling_finish_end_missing ==
    /\ pc = "finish_end"
    /\ pc' = "finish_for"
    /\ UNCHANGED << positions, supervision, stages_to_complete, runner, stack,
                    lamella, idx, stage_i, log, entry, prompt_positions >>
    /\ UNCHANGED << napari_vars, first_call >>

\* experiment = end_of_stage_update(..., save_state=False)
run_lamella_milling_finish_end ==
    /\ pc = "finish_end"
    /\ log' = Append(log, EndEvent(positions, lamella))
    /\ pc' = "finish_for"
    /\ UNCHANGED << positions, supervision, stages_to_complete, runner, stack,
                    lamella, idx, stage_i, entry, prompt_positions >>
    /\ UNCHANGED << napari_vars, first_call >>

(***************************************************************************)
(* workflows/ui.py (not in src/)                                           *)
(***************************************************************************)
\* ask_user(parent_ui, msg, pos, neg): the user's answer
ask_user == BOOLEAN

\* ask_user_continue_workflow(parent_ui, msg, validate): asks only when
\* validate is set, and continues otherwise.
ask_user_continue_workflow(validate) == IF validate THEN ask_user ELSE { TRUE }

\* `if ret is False: return experiment`, the test of the three prompts
ret_is_False_never(ret) == FALSE

ret_is_False(ret) == ret = FALSE

(***************************************************************************)
(* run_autolamella                                                         *)
(***************************************************************************)
\* if SetupLamella in stages_to_complete: run_setup_lamella(...)
run_autolamella_setup ==
    /\ pc = "autolamella_setup"
    /\ IF "SetupLamella" \in stages_to_complete
       THEN CallRunner("setup_for", "autolamella_supervise")
       ELSE CallRunner("milling_stage", "autolamella_return")
    /\ UNCHANGED << positions, supervision, stages_to_complete, runner, log, entry,
                    prompt_positions >>
    /\ UNCHANGED << napari_vars, first_call >>

\* if protocol.supervision[SetupLamella]: ask_user("Start AutoLamella Milling?"),
\* return on False; then run_lamella_milling(..., stages_to_complete)
run_autolamella_supervise ==
    /\ pc = "autolamella_supervise"
    /\ IF supervision["SetupLamella"]
       THEN \E ret \in ask_user :
               /\ log' = Append(log, AskEvent("Start AutoLamella Milling?", ret))
               /\ prompt_positions' = positions
               /\ IF ret_is_False(ret)
                  THEN /\ pc' = ReturnPc
                       /\ stack' = ReturnStack
                       /\ UNCHANGED << lamella, idx, stage_i >>
                  ELSE CallRunner("milling_stage", "autolamella_return")
       ELSE /\ CallRunner("milling_stage", "autolamella_return")
            /\ UNCHANGED << log, prompt_positions >>
    /\ UNCHANGED << positions, supervision, stages_to_complete, runner, entry >>
    /\ UNCHANGED << napari_vars, first_call >>

\* return experiment
run_autolamella_return ==
    /\ pc = "autolamella_return"
    /\ pc' = ReturnPc
    /\ stack' = ReturnStack
    /\ UNCHANGED << positions, supervision, stages_to_complete, runner, lamella,
                    idx, stage_i, log, entry, prompt_positions >>
    /\ UNCHANGED << napari_vars, first_call >>

(***************************************************************************)
(* run_autolamella_waffle                                                  *)
(***************************************************************************)
\* if MillTrench in stages_to_complete and experiment.at_stage(PositionReady):
\*     run_trench_milling(microscope, protocol, experiment, parent_ui)
run_autolamella_waffle_trench ==
    /\ pc = "waffle_trench"
    /\ IF "MillTrench" \in stages_to_complete
          /\ at_stage(positions, "PositionReady") # {}
       THEN CallRunner("trench_for", "waffle_undercut")
       ELSE /\ pc' = "waffle_undercut"
            /\ UNCHANGED << stack, lamella, idx, stage_i >>
    /\ UNCHANGED << positions, supervision, stages_to_complete, runner, log, entry,
                    prompt_positions >>
    /\ UNCHANGED << napari_vars, first_call >>

\* if MillUndercut in stages_to_complete and experiment.at_stage(MillTrench):
\*     ask_user_continue_workflow("Continue to Mill Undercut?"), return on False;
\*     run_undercut_milling(...)
run_autolamella_waffle_undercut ==
    /\ pc = "waffle_undercut"
    /\ IF "MillUndercut" \in stages_to_complete
          /\ at_stage(positions, "MillTrench") # {}
       THEN \E ret \in ask_user_continue_workflow(supervision["MillUndercut"]) :
               /\ IF supervision["MillUndercut"]
                  THEN /\ log' = Append(log, AskEvent("Continue to Mill Undercut?", ret))
                       /\ prompt_positions' = positions
                  ELSE UNCHANGED << log, prompt_positions >>
               /\ IF ret_is_False(ret)
                  THEN /\ pc' = ReturnPc
                       /\ stack' = ReturnStack
                       /\ UNCHANGED << lamella, idx, stage_i >>
                  ELSE CallRunner("undercut_for", "waffle_setup")
       ELSE /\ pc' = "waffle_setup"
            /\ UNCHANGED << stack, lamella, idx, stage_i, log, prompt_positions >>
    /\ UNCHANGED << positions, supervision, stages_to_complete, runner, entry >>
    /\ UNCHANGED << napari_vars, first_call >>

\* if SetupLamella in stages_to_complete and experiment.at_stage(MillUndercut):
\*     ask_user_continue_workflow("Continue to Setup Lamella?"), return on False
\* run_autolamella(..., stages_to_complete=stages_to_complete)
run_autolamella_waffle_setup ==
    /\ pc = "waffle_setup"
    /\ IF "SetupLamella" \in stages_to_complete
          /\ at_stage(positions, "MillUndercut") # {}
       THEN \E ret \in ask_user_continue_workflow(supervision["SetupLamella"]) :
               /\ IF supervision["SetupLamella"]
                  THEN /\ log' = Append(log, AskEvent("Continue to Setup Lamella?", ret))
                       /\ prompt_positions' = positions
                  ELSE UNCHANGED << log, prompt_positions >>
               /\ IF ret_is_False(ret)
                  THEN /\ pc' = ReturnPc
                       /\ stack' = ReturnStack
                       /\ UNCHANGED << lamella, idx, stage_i >>
                  ELSE CallRunner("autolamella_setup", "waffle_return")
       ELSE /\ CallRunner("autolamella_setup", "waffle_return")
            /\ UNCHANGED << log, prompt_positions >>
    /\ UNCHANGED << positions, supervision, stages_to_complete, runner, entry >>
    /\ UNCHANGED << napari_vars, first_call >>

\* return experiment
run_autolamella_waffle_return ==
    /\ pc = "waffle_return"
    /\ pc' = ReturnPc
    /\ stack' = ReturnStack
    /\ UNCHANGED << positions, supervision, stages_to_complete, runner, lamella,
                    idx, stage_i, log, entry, prompt_positions >>
    /\ UNCHANGED << napari_vars, first_call >>

(***************************************************************************)
(* run_spot_burn_workflow                                                  *)
(***************************************************************************)
\* microscope.safe_absolute_stage_movement(target_position), the target being
\* the position's stage position at the FIB orientation
MoveEvent(i) == Event("safe_absolute_stage_movement", i, "", "FIB", TRUE)

\* acquire.take_reference_images(microscope, image_settings), with
\* image_settings.path = position.path and the given filename
ImagesEvent(i, filename) == Event("take_reference_images", i, "", filename, TRUE)

\* ask_user(parent_ui, msg=..., pos="Continue", neg="Exit", spot_burn=True)
SpotBurnAskEvent(i, ret) ==
    Event("ask_user", i, "", "Run the spot burn workflow", ret)

\* A call of run_spot_burn_workflow from outside.
CallSpotBurn ==
    /\ pc \in { "idle", "done" }
    /\ runner' = "run_spot_burn_workflow"
    /\ pc' = "spot_burn_for"
    /\ supervision' = NoSupervision
    /\ stages_to_complete' = {}
    /\ stack' = << >>
    /\ lamella' = 0
    /\ idx' = 0
    /\ stage_i' = 0
    /\ log' = << >>
    /\ entry' = positions
    /\ prompt_positions' = << >>
    /\ UNCHANGED positions
    /\ UNCHANGED << napari_vars, first_call >>

\* for position in experiment.positions: move to the position's target at the
\* FIB orientation; the function ends when the list is exhausted.
run_spot_burn_workflow_for ==
    /\ pc = "spot_burn_for"
    /\ IF idx < Len(positions)
       THEN /\ idx' = idx + 1
            /\ lamella' = idx + 1
            /\ log' = Append(log, MoveEvent(idx + 1))
            /\ pc' = "spot_burn_start"
       ELSE /\ pc' = "done"
            /\ UNCHANGED << idx, lamella, log >>
    /\ UNCHANGED << positions, supervision, stages_to_complete, runner, stack,
                    stage_i, entry, prompt_positions >>
    /\ UNCHANGED << napari_vars, first_call >>

\* image_settings.filename = "ref_spot_burn_start"; take_reference_images
run_spot_burn_workflow_start ==
    /\ pc = "spot_burn_start"
    /\ log' = Append(log, ImagesEvent(lamella, "ref_spot_burn_start"))
    /\ pc' = "spot_burn_ask"
    /\ UNCHANGED << positions, supervision, stages_to_complete, runner, stack,
                    lamella, idx, stage_i, entry, prompt_positions >>
    /\ UNCHANGED << napari_vars, first_call >>

\* ret = ask_user(...); if ret is False: break
run_spot_burn_workflow_ask ==
    /\ pc = "spot_burn_ask"
    /\ \E ret \in ask_user :
          /\ log' = Append(log, SpotBurnAskEvent(lamella, ret))
          /\ pc' = IF ret_is_False(ret) THEN "done" ELSE "spot_burn_end"
    /\ prompt_positions' = positions
    /\ UNCHANGED << positions, supervision, stages_to_complete, runner, stack,
                    lamella, idx, stage_i, entry >>
    /\ UNCHANGED << napari_vars, first_call >>

\* the loop body without the final reference images
run_spot_burn_workflow_end_missing ==
    /\ pc = "spot_burn_end"
    /\ pc' = "spot_burn_for"
    /\ UNCHANGED << positions, supervision, stages_to_complete, runner, stack,
                    lamella, idx, stage_i, log, entry, prompt_positions >>
    /\ UNCHANGED << napari_vars, first_call >>

\* image_settings.filename = "ref_spot_burn_end"; take_reference_images
run_spot_burn_workflow_end ==
    /\ pc = "spot_burn_end"
    /\ log' = Append(log, ImagesEvent(lamella, "ref_spot_burn_end"))
    /\ pc' = "spot_burn_for"
    /\ UNCHANGED << positions, supervision, stages_to_complete, runner, stack,
                    lamella, idx, stage_i, entry, prompt_positions >>
    /\ UNCHANGED << napari_vars, first_call >>

NextSpotBurn ==
    \/ CallSpotBurn
    \/ run_spot_burn_workflow_for
    \/ run_spot_burn_workflow_start
    \/ run_spot_burn_workflow_ask
    \/ run_spot_burn_workflow_end

SpecSpotBurn == Init /\ [][NextSpotBurn]_vars

(***************************************************************************)
(* Properties of the workflow runners (checked under Spec).                *)
(*                                                                         *)
(* `log` holds the calls of the running (or last) top-level call in order; *)
(* `entry` the positions it was given.                                     *)
(***************************************************************************)
IsStart(e) == e.op = "start_of_stage_update"
IsFn(e) == e.op = "stage_function"
IsEnd(e) == e.op = "end_of_stage_update"
IsAsk(e) == e.op = "ask_user"

\* Position p was marked failed before the k-th call of the log was made.
FailedBefore(p, k) ==
    \/ entry[p].is_failure
    \/ \E j \in 1..(k - 1) : IsFn(log[j]) /\ log[j].pos = p /\ ~log[j].ret

MillingStages == { "MillRough", "SetupPolishing", "MillPolishing", "Finished" }

\* C1: a position that is failed when a runner examines it is skipped: every
\* start_of_stage_update is made on a position that is not failed at that
\* moment, stage functions and end_of_stage_update only follow such a start on
\* the same position, and a failed position keeps its workflow stage (so a
\* position failed during MillRough is not taken further in the same call).
C1_FailedPositionsSkipped ==
    /\ \A k \in DOMAIN log :
          /\ IsStart(log[k]) => ~FailedBefore(log[k].pos, k)
          /\ IsFn(log[k]) =>
                k > 1 /\ IsStart(log[k - 1]) /\ log[k - 1].pos = log[k].pos
          /\ IsEnd(log[k]) =>
                /\ k > 1
                /\ IsStart(log[k - 1]) \/ IsFn(log[k - 1])
                /\ log[k - 1].pos = log[k].pos
    /\ \A p \in DOMAIN positions :
          /\ entry[p].is_failure => positions[p] = entry[p]
          /\ \A k \in DOMAIN log :
                (IsFn(log[k]) /\ log[k].pos = p /\ ~log[k].ret)
                    => positions[p].workflow = log[k].stage

\* C1 witness: run_lamella_milling with all three stages has returned and a
\* position that failed during MillRough is still at MillRough.
C1_Witness ==
    /\ pc = "done"
    /\ runner = "run_lamella_milling"
    /\ { "MillRough", "SetupPolishing", "MillPolishing" } \subseteq stages_to_complete
    /\ \E k \in DOMAIN log :
          /\ IsFn(log[k]) /\ log[k].stage = "MillRough" /\ ~log[k].ret
          /\ positions[log[k].pos].workflow = "MillRough"
          /\ positions[log[k].pos].is_failure

InMethodRunner == runner \in { "run_autolamella", "run_autolamella_waffle" }

\* C2 as stated: in run_autolamella and run_autolamella_waffle, every advance of
\* a position into a stage S with supervision[S] true comes after a prompt
\* the user answered positively in the same run.
C2_Original ==
    InMethodRunner =>
        \A k \in DOMAIN log :
            (IsStart(log[k]) /\ supervision[log[k].stage]) =>
                \E j \in 1..(k - 1) : IsAsk(log[j]) /\ log[j].ret

\* C2 amended: the advance into MillUndercut is the one gated by its own flag:
\* in run_autolamella_waffle with supervision[MillUndercut] true, every advance
\* of a position into MillUndercut comes after a positive answer to
\* "Continue to Mill Undercut?" in the same run.
C2_UndercutConfirmed ==
    (InMethodRunner /\ supervision["MillUndercut"]) =>
        \A k \in DOMAIN log :
            (IsStart(log[k]) /\ log[k].stage = "MillUndercut") =>
                \E j \in 1..(k - 1) :
                    /\ IsAsk(log[j])
                    /\ log[j].arg = "Continue to Mill Undercut?"
                    /\ log[j].ret

\* C2 witness: a supervised MillUndercut was started after the user confirmed.
C2_Witness ==
    /\ runner = "run_autolamella_waffle"
    /\ supervision["MillUndercut"]
    /\ \E k \in DOMAIN log : IsStart(log[k]) /\ log[k].stage = "MillUndercut"

WafflePrompts == { "Continue to Mill Undercut?", "Continue to Setup Lamella?" }

\* C3: in run_autolamella_waffle a negative answer to "Continue to Mill
\* Undercut?" or "Continue to Setup Lamella?" ends the call at once: the prompt
\* is the last call made, the function has returned and the positions are as
\* they were when the prompt was shown.
C3_WaffleDeclineReturns ==
    runner = "run_autolamella_waffle" =>
        \A k \in DOMAIN log :
            (IsAsk(log[k]) /\ log[k].arg \in WafflePrompts /\ ~log[k].ret) =>
                /\ k = Len(log)
                /\ pc = "done"
                /\ positions = prompt_positions

\* C3 witness: trench milling ran, then the user declined the undercut prompt.
C3_Witness ==
    /\ runner = "run_autolamella_waffle"
    /\ pc = "done"
    /\ Len(log) > 1
    /\ IsAsk(log[Len(log)])
    /\ log[Len(log)].arg = "Continue to Mill Undercut?"
    /\ ~log[Len(log)].ret
    /\ \E k \in DOMAIN log : IsFn(log[k]) /\ log[k].stage = "MillTrench"

ReadyForSetup(ps) ==
    { p \in DOMAIN ps : ps[p].workflow \in SetupLamellaPredecessors /\ ~ps[p].is_failure }

\* C4: in run_autolamella with SetupLamella in stages_to_complete and
\* supervision[SetupLamella] true, "Start AutoLamella Milling?" is asked once
\* run_setup_lamella is through with every position and before any milling
\* stage: every SetupLamella call precedes the prompt, no position is left
\* ready for setup when it is shown, every advance into MillRough,
\* SetupPolishing, MillPolishing or Finished follows a positive answer, and on
\* a negative answer nothing more is called.
C4_MillingAfterConfirmation ==
    (/\ runner = "run_autolamella"
     /\ "SetupLamella" \in stages_to_complete
     /\ supervision["SetupLamella"]) =>
        /\ \A k \in DOMAIN log :
              /\ (IsStart(log[k]) /\ log[k].stage \in MillingStages) =>
                    \E j \in 1..(k - 1) : IsAsk(log[j]) /\ log[j].ret
              /\ IsAsk(log[k]) =>
                    /\ log[k].arg = "Start AutoLamella Milling?"
                    /\ \A j \in DOMAIN log :
                          log[j].stage = "SetupLamella" => j < k
                    /\ ~log[k].ret => (k = Len(log) /\ pc = "done")
        /\ (\E k \in DOMAIN log : IsAsk(log[k])) => ReadyForSetup(prompt_positions) = {}
        /\ pc = "done" => \E k \in DOMAIN log : IsAsk(log[k])

\* C4 witness: setup ran on a position, the user declined, the call returned.
C4_Witness ==
    /\ runner = "run_autolamella"
    /\ pc = "done"
    /\ supervision["SetupLamella"]
    /\ Len(log) > 1
    /\ IsAsk(log[Len(log)]) /\ ~log[Len(log)].ret
    /\ \E p \in DOMAIN positions :
          positions[p].workflow = "SetupLamella" /\ entry[p].workflow = "PositionReady"


\* C5: a stage is executed as start_of_stage_update(position, stage), the
\* stage's function on that position, end_of_stage_update(position), one right
\* after the other (no stage function for Finished); nothing else comes in
\* between and, once the call has returned, every start has had its one end.
C5_StartFunctionEnd ==
    /\ \A k \in DOMAIN log :
          /\ (IsStart(log[k]) /\ log[k].stage # "Finished" /\ k < Len(log)) =>
                /\ IsFn(log[k + 1])
                /\ log[k + 1].pos = log[k].pos
                /\ log[k + 1].stage = log[k].stage
                /\ log[k + 1].arg = WORKFLOW_STAGES[log[k].stage]
          /\ (IsStart(log[k]) /\ log[k].stage = "Finished" /\ k < Len(log)) =>
                IsEnd(log[k + 1]) /\ log[k + 1].pos = log[k].pos
          /\ (IsFn(log[k]) /\ k < Len(log)) =>
                /\ IsEnd(log[k + 1])
                /\ log[k + 1].pos = log[k].pos
                /\ log[k + 1].stage = log[k].stage
          /\ IsFn(log[k]) =>
                k > 1 /\ IsStart(log[k - 1]) /\ log[k - 1].stage # "Finished"
          /\ IsEnd(log[k]) =>
                /\ k > 1
                /\ \/ IsFn(log[k - 1])
                   \/ IsStart(log[k - 1]) /\ log[k - 1].stage = "Finished"
    /\ (pc = "done" /\ log # << >>) => ~IsStart(log[Len(log)]) /\ ~IsFn(log[Len(log)])

\* C5 witness: a call has returned after running stages on two positions and
\* finishing one of them.
C5_Witness ==
    /\ pc = "done"
    /\ \E j, k \in DOMAIN log :
          /\ IsFn(log[j]) /\ IsFn(log[k]) /\ log[j].pos # log[k].pos
    /\ \E k \in DOMAIN log : IsStart(log[k]) /\ log[k].stage = "Finished"

\* the stages a position may be at when the stage is started on it
RequiredPredecessors ==
    [ MillTrench     |-> { "PositionReady" },
      MillUndercut   |-> { "MillTrench" },
      SetupLamella   |-> { "PositionReady", "MillUndercut", "LandLamella" },
      MillRough      |-> { "SetupLamella" },
      SetupPolishing |-> { "MillRough" },
      MillPolishing  |-> { "MillRough", "SetupPolishing" } ]

\* C6: a stage is started on a position, and its function run on it, only when
\* the position is at a required predecessor of the stage.
C6_StartedFromPredecessor ==
    \A k \in DOMAIN log :
        /\ (IsStart(log[k]) /\ log[k].stage \in DOMAIN RequiredPredecessors) =>
              log[k].arg \in RequiredPredecessors[log[k].stage]
        /\ IsFn(log[k]) =>
              /\ k > 1
              /\ IsStart(log[k - 1])
              /\ log[k - 1].pos = log[k].pos
              /\ log[k - 1].stage = log[k].stage
              /\ log[k].stage \in DOMAIN RequiredPredecessors
              /\ log[k - 1].arg \in RequiredPredecessors[log[k].stage]

\* C6 witness: SetupLamella was started from LandLamella, MillRough from
\* SetupLamella and MillPolishing from SetupPolishing.
C6_Witness ==
    /\ \E k \in DOMAIN log :
          IsStart(log[k]) /\ log[k].stage = "SetupLamella" /\ log[k].arg = "LandLamella"
    /\ \E k \in DOMAIN log :
          IsStart(log[k]) /\ log[k].stage = "MillRough" /\ log[k].arg = "SetupLamella"
    /\ \E k \in DOMAIN log :
          IsStart(log[k]) /\ log[k].stage = "MillPolishing"
              /\ log[k].arg = "SetupPolishing"

\* C7: whatever runners are called one after the other, every change of a
\* position's workflow is to a stage of strictly greater enum value.
C7_WorkflowMovesForward ==
    [][ \A p \in DOMAIN positions :
            positions'[p].workflow # positions[p].workflow =>
                StageValue(positions'[p].workflow) > StageValue(positions[p].workflow)
      ]_vars

\* C7 witness: a position that entered the call at PositionReady is Finished.
C7_Witness ==
    \E p \in DOMAIN positions :
        entry[p].workflow = "PositionReady" /\ positions[p].workflow = "Finished"

\* the stages whose function ran on position p, in order
FnStages(p) ==
    LET on_p == SelectSeq(log, LAMBDA e : IsFn(e) /\ e.pos = p)
    IN [ k \in DOMAIN on_p |-> << on_p[k].stage, on_p[k].arg >> ]

\* C8: SetupPolishing is optional. When run_lamella_milling has returned with
\* MillRough and MillPolishing in stages_to_complete, a position that was at
\* SetupLamella and is not failed has had mill_lamella run for MillRough and
\* then for MillPolishing, with setup_polishing in between exactly when
\* SetupPolishing is in stages_to_complete; MillPolishing ran on it once, and on
\* no position more than once.
C8_SetupPolishingOptional ==
    (/\ runner = "run_lamella_milling"
     /\ { "MillRough", "MillPolishing" } \subseteq stages_to_complete) =>
        \A p \in DOMAIN positions :
            /\ Cardinality({ k \in DOMAIN log :
                    IsFn(log[k]) /\ log[k].pos = p /\ log[k].stage = "MillPolishing" }) <= 1
            /\ (/\ pc = "done"
                /\ entry[p].workflow = "SetupLamella"
                /\ ~positions[p].is_failure) =>
                  FnStages(p) =
                      IF "SetupPolishing" \in stages_to_complete
                      THEN << << "MillRough", "mill_lamella" >>,
                              << "SetupPolishing", "setup_polishing" >>,
                              << "MillPolishing", "mill_lamella" >> >>
                      ELSE << << "MillRough", "mill_lamella" >>,
                              << "MillPolishing", "mill_lamella" >> >>

\* C8 witness: without SetupPolishing, a position went from SetupLamella
\* through MillRough and MillPolishing.
C8_Witness ==
    /\ runner = "run_lamella_milling"
    /\ pc = "done"
    /\ stages_to_complete = { "MillRough", "MillPolishing" }
    /\ \E p \in DOMAIN positions :
          /\ entry[p].workflow = "SetupLamella"
          /\ ~positions[p].is_failure
          /\ positions[p].workflow = "Finished"


(***************************************************************************)
(* More properties of the workflow runners (checked under Spec).           *)
(***************************************************************************)
\* the workflow stage of position p right before the k-th call of the log
WorkflowBefore(p, k) ==
    LET starts == { j \in 1..(k - 1) : IsStart(log[j]) /\ log[j].pos = p }
    IN IF starts = {}
       THEN entry[p].workflow
       ELSE log[CHOOSE j \in starts : \A i \in starts : i <= j].stage

\* position p would be taken by the loop of `stage` right before the k-th call
ReadyBefore(stage, p, k) ==
    /\ WorkflowBefore(p, k) \in
          (IF stage = "Finished" THEN { "MillPolishing" } ELSE RequiredPredecessors[stage])
    /\ ~FailedBefore(p, k)

\* C13: the milling stages run in the order MillRough, SetupPolishing,
\* MillPolishing, then Finished, stage by stage: the starts of the log are
\* ordered by stage and, within a stage, by position; when a stage is started
\* on a position, no position is left ready for an earlier stage of
\* stages_to_complete and no earlier position is left ready for this stage.
C13_StageByStage ==
    \A k \in DOMAIN log :
        (IsStart(log[k]) /\ log[k].stage \in MillingStages) =>
            /\ \A j \in 1..(k - 1) :
                  (IsStart(log[j]) /\ log[j].stage \in MillingStages) =>
                      \/ StageValue(log[j].stage) < StageValue(log[k].stage)
                      \/ log[j].stage = log[k].stage /\ log[j].pos < log[k].pos
            /\ \A q \in DOMAIN positions :
                  /\ \A earlier \in stages_to_complete \cap MillingStages :
                        StageValue(earlier) < StageValue(log[k].stage) =>
                            ~ReadyBefore(earlier, q, k)
                  /\ q < log[k].pos => ~ReadyBefore(log[k].stage, q, k)

\* C13 witness: run_lamella_milling with the three stages has returned after
\* taking two positions from SetupLamella to Finished, each stage on both
\* positions before the next.
C13_Witness ==
    /\ runner = "run_lamella_milling"
    /\ pc = "done"
    /\ Len(positions) = 2
    /\ \A p \in DOMAIN positions :
          entry[p].workflow = "SetupLamella" /\ positions[p].workflow = "Finished"
    /\ \E j, k \in DOMAIN log :
          /\ j < k
          /\ IsStart(log[j]) /\ log[j].stage = "MillRough" /\ log[j].pos = 2
          /\ IsStart(log[k]) /\ log[k].stage = "SetupPolishing" /\ log[k].pos = 1

\* C14: a position becomes Finished only by the start_of_stage_update of the
\* final loop of run_lamella_milling, made on a position that is then at
\* MillPolishing and not failed and followed by end_of_stage_update with no
\* stage function in between; when run_lamella_milling has returned, whatever
\* stages_to_complete, no position is left at MillPolishing and not failed, and
\* every position that entered at MillPolishing and not failed is Finished.
C14_FinishedFromMillPolishing ==
    /\ \A k \in DOMAIN log :
          /\ (IsStart(log[k]) /\ log[k].stage = "Finished") =>
                /\ log[k].arg = "MillPolishing"
                /\ ~FailedBefore(log[k].pos, k)
                /\ k < Len(log) => IsEnd(log[k + 1]) /\ log[k + 1].pos = log[k].pos
                /\ \A j \in (k + 1)..Len(log) :
                      IsStart(log[j]) => log[j].stage = "Finished"
          /\ IsFn(log[k]) => log[k].stage # "Finished"
    /\ \A p \in DOMAIN positions :
          /\ (positions[p].workflow = "Finished" /\ entry[p].workflow # "Finished") =>
                \E k \in DOMAIN log :
                    IsStart(log[k]) /\ log[k].stage = "Finished" /\ log[k].pos = p
          /\ (runner = "run_lamella_milling" /\ pc = "done") =>
                /\ ~(positions[p].workflow = "MillPolishing" /\ ~positions[p].is_failure)
                /\ (entry[p].workflow = "MillPolishing" /\ ~entry[p].is_failure) =>
                      positions[p].workflow = "Finished"

\* C14 witness: run_lamella_milling with an empty stages_to_complete has
\* returned, a position that entered at MillPolishing is Finished, and one that
\* entered at another stage is where it was.
C14_Witness ==
    /\ runner = "run_lamella_milling"
    /\ pc = "done"
    /\ stages_to_complete = {}
    /\ \E p, q \in DOMAIN positions :
          /\ entry[p].workflow = "MillPolishing"
          /\ positions[p].workflow = "Finished"
          /\ entry[q].workflow = "SetupPolishing"
          /\ ~entry[q].is_failure
          /\ positions[q] = entry[q]

\* the six stages of the waffle method
WaffleStages ==
    { "MillTrench", "MillUndercut", "SetupLamella",
      "MillRough", "SetupPolishing", "MillPolishing" }

\* the run so far is one of run_autolamella_waffle with the six stages in
\* stages_to_complete, every prompt answered positively and no stage function
\* coming back with a failure
WaffleUnhindered ==
    /\ runner = "run_autolamella_waffle"
    /\ stages_to_complete = WaffleStages
    /\ \A k \in DOMAIN log : log[k].ret

\* C15 as stated: such a call of run_autolamella_waffle terminates by
\* returning, and on return every position that entered at PositionReady and
\* not failed is Finished, the stage functions of MillTrench, MillUndercut,
\* SetupLamella, MillRough, SetupPolishing and MillPolishing having run on it
\* in that order.
C15_WaffleCompletes ==
    WaffleUnhindered =>
        /\ pc # "error"
        /\ pc = "done" =>
              \A p \in DOMAIN positions :
                  (entry[p].workflow = "PositionReady" /\ ~entry[p].is_failure) =>
                      /\ positions[p].workflow = "Finished"
                      /\ FnStages(p) =
                            << << "MillTrench", "mill_trench" >>,
                               << "MillUndercut", "mill_undercut" >>,
                               << "SetupLamella", "setup_lamella" >>,
                               << "MillRough", "mill_lamella" >>,
                               << "SetupPolishing", "setup_polishing" >>,
                               << "MillPolishing", "mill_lamella" >> >>

\* the stage a runner of one stage takes positions from, and the one it runs
OneStageRunners ==
    [ run_trench_milling   |-> [ from |-> "PositionReady", to |-> "MillTrench" ],
      run_undercut_milling |-> [ from |-> "MillTrench", to |-> "MillUndercut" ] ]

\* C16: run_trench_milling and run_undercut_milling touch only the positions
\* that were at PositionReady (MillTrench for the undercut) and not failed when
\* called, and take them one stage further: no other position ever changes,
\* and when the call is over each eligible position is at MillTrench
\* (MillUndercut) with that stage's function run on it exactly once and no
\* other; stages_to_complete plays no part in run_trench_milling.
C16_OneStageOnEligible ==
    runner \in DOMAIN OneStageRunners =>
        LET from == OneStageRunners[runner].from
            to == OneStageRunners[runner].to
        IN \A p \in DOMAIN positions :
              IF entry[p].workflow = from /\ ~entry[p].is_failure
              THEN /\ positions[p].workflow \in { from, to }
                   /\ \A k \in DOMAIN FnStages(p) :
                         k = 1 /\ FnStages(p)[k] = << to, WORKFLOW_STAGES[to] >>
                   /\ pc \in { "done", "error" } =>
                         /\ positions[p].workflow = to
                         /\ Len(FnStages(p)) = 1
              ELSE /\ positions[p] = entry[p]
                   /\ FnStages(p) = << >>

\* C16 witness: run_trench_milling, called with a stages_to_complete without
\* MillTrench, has returned after milling one position and leaving a failed
\* one at PositionReady alone.
C16_Witness ==
    /\ runner = "run_trench_milling"
    /\ pc = "done"
    /\ "MillTrench" \notin stages_to_complete
    /\ \E p, q \in DOMAIN positions :
          /\ entry[p].workflow = "PositionReady" /\ ~entry[p].is_failure
          /\ positions[p].workflow = "MillTrench"
          /\ entry[q].workflow = "PositionReady" /\ entry[q].is_failure
          /\ positions[q] = entry[q]

\* C18 as stated: in run_autolamella_waffle, whatever stages_to_complete, a
\* position that entered at PositionReady or MillTrench has setup_lamella, or
\* the function of any later stage, run on it only after mill_undercut has
\* been run on it.
C18_NoSetupWithoutUndercut ==
    runner = "run_autolamella_waffle" =>
        \A k \in DOMAIN log :
            (/\ IsFn(log[k])
             /\ StageValue(log[k].stage) >= StageValue("SetupLamella")
             /\ entry[log[k].pos].workflow \in { "PositionReady", "MillTrench" }) =>
                \E j \in 1..(k - 1) :
                    /\ IsFn(log[j])
                    /\ log[j].pos = log[k].pos
                    /\ log[j].arg = "mill_undercut"

\* C19 as stated: run_trench_milling, run_undercut_milling, run_setup_lamella
\* and run_lamella_milling return for every list of positions, the empty one
\* included: none of them ends on the read of an unassigned `lamella`.
C19_RunnersReturn ==
    runner \in { "run_trench_milling", "run_undercut_milling",
                 "run_setup_lamella", "run_lamella_milling" } =>
        pc # "error"

(***************************************************************************)
(* ui/napari/patterns.py                                                   *)
(*                                                                         *)
(* Pixel coordinates are kept in half pixels (a vertex <<y2, x2>> stands   *)
(* for (y2 / 2, x2 / 2)) so that the w / 2 of a rectangle stays an         *)
(* integer; pixelsize is 1 and rotations are 0.                            *)
(***************************************************************************)
\* Largest number of milling stages passed to one draw call.
MaxMillingStages == 2

\* image_layer.data.shape, (rows, columns)
ImageShape == << 16, 24 >>

COLOURS == << "yellow", "cyan", "magenta", "lime", "orange", "hotpink", "green",
              "blue", "red", "purple" >>

STAGE_POSTIION_SHAPE_LAYERS == { "saved-stage-positions", "current-stage-position" }

IGNORE_SHAPES_LAYERS ==
    { "ruler_line", "crosshair", "scalebar", "label", "alignment_area" }
        \cup STAGE_POSTIION_SHAPE_LAYERS

IMAGE_PATTERN_LAYERS == { "annulus-layer", "bmp_Image" }

\* `sub in name` for the layer names of the model
NameContains(name, sub) ==
    << name, sub >> \in { << "annulus-layer", "annulus-layer" >>,
                          << "bmp_Image", "bmp_Image" >>,
                          << "bmp_Image [1]", "bmp_Image" >> }

\* get_image_pixel_centre(shape)
get_image_pixel_centre(shape) == << shape[1] \div 2, shape[2] \div 2 >>

\* convert_pattern_to_napari_circle
convert_pattern_to_napari_circle(ps, shape) ==
    LET icy == get_image_pixel_centre(shape)[1]
        icx == get_image_pixel_centre(shape)[2]
        r == ps.radius
        cx == icx + ps.centre_x
        cy == icy - ps.centre_y
        xmin == cx - r
        ymin == cy - r
        xmax == cx + r
        ymax == cy + r
    IN << << 2 * ymin, 2 * xmin >>, << 2 * ymin, 2 * xmax >>,
          << 2 * ymax, 2 * xmax >>, << 2 * ymax, 2 * xmin >> >>

\* convert_pattern_to_napari_line
convert_pattern_to_napari_line(ps, shape) ==
    LET icy == get_image_pixel_centre(shape)[1]
        icx == get_image_pixel_centre(shape)[2]
        px0 == icx + ps.start_x
        py0 == icy - ps.start_y
        px1 == icx + ps.end_x
        py1 == icy - ps.end_y
    IN << << 2 * py0, 2 * px0 >>, << 2 * py1, 2 * px1 >> >>

\* The four corners of a w x h rectangle centred on (cy, cx), in half pixels:
\* rotation 0 when `quarter_turn` is FALSE, 90 degrees when TRUE.
RectangleCorners(cy, cx, w, h, quarter_turn) ==
    IF quarter_turn
    THEN << << 2 * cy - w, 2 * cx + h >>, << 2 * cy + w, 2 * cx + h >>,
            << 2 * cy + w, 2 * cx - h >>, << 2 * cy - w, 2 * cx - h >> >>
    ELSE << << 2 * cy - h, 2 * cx - w >>, << 2 * cy - h, 2 * cx + w >>,
            << 2 * cy + h, 2 * cx + w >>, << 2 * cy + h, 2 * cx - w >> >>

\* convert_pattern_to_napari_rect
convert_pattern_to_napari_rect(ps, shape) ==
    LET icy == get_image_pixel_centre(shape)[1]
        icx == get_image_pixel_centre(shape)[2]
        cx == icx + ps.centre_x
        cy == icy - ps.centre_y
    IN RectangleCorners(cy, cx, ps.width, ps.height, FALSE)

\* int(n2 / 2): truncation towards zero
IntHalf(n2) == IF n2 >= 0 THEN n2 \div 2 ELSE -((-n2) \div 2)

\* convert_bitmap_pattern_to_napari_image: the translate position of the image
\* (the image array itself is not modelled)
convert_bitmap_pattern_to_napari_image(ps, shape) ==
    LET icy == get_image_pixel_centre(shape)[1]
        icx == get_image_pixel_centre(shape)[2]
        pattern_centre_x == IntHalf(2 * icx - ps.width)
        pattern_centre_y == IntHalf(2 * icy - ps.height)
        pattern_point_x == pattern_centre_x + ps.centre_x
        pattern_point_y == pattern_centre_y - ps.centre_y
    IN << << 2 * pattern_point_y, 2 * pattern_point_x >> >>

\* w and h of create_crosshair_shape
CrosshairWidth == 40
CrosshairHeight == 1

\* create_crosshair_shape(centre_point, shape, pixelsize): two rectangles, at 0
\* and 90 degrees
create_crosshair_shape(centre_point, shape) ==
    LET icy == shape[1] \div 2
        icx == shape[2] \div 2
        cx == icx + centre_point[1]
        cy == icy - centre_point[2]
    IN << RectangleCorners(cy, cx, CrosshairWidth, CrosshairHeight, FALSE),
          RectangleCorners(cy, cx, CrosshairWidth, CrosshairHeight, TRUE) >>

NAPARI_DRAWING_FUNCTIONS ==
    [ FibsemRectangleSettings |-> "convert_pattern_to_napari_rect",
      FibsemCircleSettings    |-> "convert_pattern_to_napari_circle",
      FibsemLineSettings      |-> "convert_pattern_to_napari_line",
      FibsemBitmapSettings    |-> "convert_bitmap_pattern_to_napari_image" ]

NAPARI_PATTERN_LAYER_TYPES ==
    [ FibsemRectangleSettings |-> "rectangle",
      FibsemCircleSettings    |-> "ellipse",
      FibsemLineSettings      |-> "line",
      FibsemBitmapSettings    |-> "image" ]

\* d.get(key, None)
DictGet(d, key) == IF key \in DOMAIN d THEN d[key] ELSE "None"

\* napari_drawing_fn(pattern_settings=..., shape=image_shape, pixelsize=pixelsize)
CallDrawingFn(fn, ps, shape) ==
    CASE fn = "convert_pattern_to_napari_rect" ->
            convert_pattern_to_napari_rect(ps, shape)
      [] fn = "convert_pattern_to_napari_circle" ->
            convert_pattern_to_napari_circle(ps, shape)
      [] fn = "convert_pattern_to_napari_line" ->
            convert_pattern_to_napari_line(ps, shape)
      [] fn = "convert_bitmap_pattern_to_napari_image" ->
            convert_bitmap_pattern_to_napari_image(ps, shape)

\* A viewer layer: a shapes layer with its data, or an image layer.
ShapesLayer(name, drawings) ==
    [ name |-> name, type |-> "shapes",
      data       |-> [ k \in DOMAIN drawings |-> drawings[k].shape ],
      shape_type |-> [ k \in DOMAIN drawings |-> drawings[k].stype ],
      edge_color |-> [ k \in DOMAIN drawings |-> drawings[k].colour ] ]

ImageLayer(name) ==
    [ name |-> name, type |-> "image", data |-> << >>, shape_type |-> << >>,
      edge_color |-> << >> ]

\* remove_all_napari_shapes_layers(viewer, layer_type, ignore)
remove_all_napari_shapes_layers(ls, layer_type, ignore) ==
    LET layers_to_ignore == IGNORE_SHAPES_LAYERS \cup ignore
        to_remove(l) ==
            /\ l.name \notin layers_to_ignore
            /\ \/ l.type = layer_type
               \/ \E layer_name \in IMAGE_PATTERN_LAYERS : NameContains(l.name, layer_name)
    IN SelectSeq(ls, LAMBDA l : ~to_remove(l))

\* with `break` for `continue`: the first settings object without a drawing
\* function ends the stage's loop
ConvertPatterns_break(settings) ==
    LET unsupported == { k \in DOMAIN settings :
                           settings[k].type \notin DOMAIN NAPARI_DRAWING_FUNCTIONS }
        n == IF unsupported = {} THEN Len(settings) ELSE Min(unsupported) - 1
    IN [ k \in 1..n |->
           [ shape |-> CallDrawingFn(NAPARI_DRAWING_FUNCTIONS[settings[k].type],
                                     settings[k], ImageShape),
             stype |-> NAPARI_PATTERN_LAYER_TYPES[settings[k].type] ] ]

\* draw_milling_patterns_in_napari, the loop over stage.pattern.define(): a
\* settings object without a drawing function is logged and passed over.
RECURSIVE ConvertPatterns(_)
ConvertPatterns(settings) ==
    IF settings = << >>
    THEN << >>
    ELSE LET pattern_settings == Head(settings)
             napari_drawing_fn == DictGet(NAPARI_DRAWING_FUNCTIONS, pattern_settings.type)
         IN IF napari_drawing_fn = "None"
            THEN ConvertPatterns(Tail(settings))
            ELSE << [ shape |-> CallDrawingFn(napari_drawing_fn, pattern_settings,
                                              ImageShape),
                      stype |-> DictGet(NAPARI_PATTERN_LAYER_TYPES,
                                        pattern_settings.type) ] >>
                 \o ConvertPatterns(Tail(settings))

\* draw_milling_patterns_in_napari, the body of the loop over the stages: the
\* shapes of stage i (counted from 0), with the crosshair and the colours.
StageDrawings(stage, i, n_milling_stages, draw_crosshair) ==
    LET napari_shapes == ConvertPatterns(stage.define)
        crosshair_shapes == create_crosshair_shape(stage.point, ImageShape)
        with_crosshair ==
            IF draw_crosshair
            THEN napari_shapes
                 \o [ k \in DOMAIN crosshair_shapes |->
                        [ shape |-> crosshair_shapes[k], stype |-> "rectangle" ] ]
            ELSE napari_shapes
        is_background == i >= n_milling_stages
        colour == IF is_background THEN "black" ELSE COLOURS[(i % Len(COLOURS)) + 1]
    IN IF napari_shapes # << >>
       THEN [ k \in DOMAIN with_crosshair |->
                [ shape  |-> with_crosshair[k].shape,
                  stype  |-> with_crosshair[k].stype,
                  colour |-> colour ] ]
       ELSE << >>

\* draw_milling_patterns_in_napari, the loop over all_milling_stages
RECURSIVE AllDrawings(_, _, _, _)
AllDrawings(all_milling_stages, i, n_milling_stages, draw_crosshair) ==
    IF i >= Len(all_milling_stages)
    THEN << >>
    ELSE StageDrawings(all_milling_stages[i + 1], i, n_milling_stages, draw_crosshair)
         \o AllDrawings(all_milling_stages, i + 1, n_milling_stages, draw_crosshair)

LayerNames(ls) == { ls[k].name : k \in DOMAIN ls }

\* draw_milling_patterns_in_napari(viewer, image_layer, milling_stages, pixelsize,
\* draw_crosshair, background_milling_stages): the viewer's layers afterwards
draw_milling_patterns_in_napari(ls, milling_stages, draw_crosshair, background) ==
    LET all_milling_stages == milling_stages \o background
        n_milling_stages == Len(milling_stages)
        all_drawings == AllDrawings(all_milling_stages, 0, n_milling_stages,
                                    draw_crosshair)
        name == "Milling Patterns"
        updated ==
            IF all_drawings # << >>
            THEN IF name \in LayerNames(ls)
                 THEN [ k \in DOMAIN ls |->
                          IF ls[k].name = name
                          THEN ShapesLayer(name, all_drawings)
                          ELSE ls[k] ]
                 ELSE Append(ls, ShapesLayer(name, all_drawings))
            ELSE ls
    IN remove_all_napari_shapes_layers(updated, "shapes", { name })

(***************************************************************************)
(* The viewer and the draw calls made on it                                *)
(***************************************************************************)
Settings(type, centre_x, centre_y, width, height) ==
    [ type |-> type, centre_x |-> centre_x, centre_y |-> centre_y,
      width |-> width, height |-> height, radius |-> 0,
      start_x |-> 0, start_y |-> 0, end_x |-> 0, end_y |-> 0 ]

RectangleSettings == Settings("FibsemRectangleSettings", 1, 1, 6, 4)

CircleSettings ==
    [ Settings("FibsemCircleSettings", -2, 0, 0, 0) EXCEPT !.radius = 3 ]

LineSettings ==
    [ Settings("FibsemLineSettings", 0, 0, 0, 0)
        EXCEPT !.start_x = -4, !.start_y = 2, !.end_x = 4, !.end_y = 2 ]

BitmapSettings == Settings("FibsemBitmapSettings", 0, 0, 5, 3)

\* a settings object of a type without a drawing function
UnsupportedSettings == Settings("FibsemPatternSettings", 0, 0, 2, 2)

\* The milling stages a draw call is given: stage.pattern.define() and
\* stage.pattern.point.
MillingStageChoices ==
    { [ define |-> << RectangleSettings, BitmapSettings >>, point |-> << 1, 1 >> ],
      [ define |-> << LineSettings, UnsupportedSettings, CircleSettings >>,
        point |-> << -2, 0 >> ],
      [ define |-> << UnsupportedSettings >>, point |-> << 0, 0 >> ] }

MillingStageLists ==
    UNION { [ 1..n -> MillingStageChoices ] : n \in 0..MaxMillingStages }

\* background_milling_stages: None (no stage) or a list
BackgroundChoices ==
    { << >>,
      << [ define |-> << RectangleSettings >>, point |-> << 0, 0 >> ] >> }

\* The layers other parts of the UI have put in the viewer.
OtherLayers ==
    << ImageLayer("FIB Image"),
       ShapesLayer("crosshair", << >>),
       ShapesLayer("Shapes", << >>),
       ImageLayer("bmp_Image [1]") >>

\* the subsequence of seq with the indexes of keep
RECURSIVE SubSeqOf(_, _, _)
SubSeqOf(seq, keep, k) ==
    IF k > Len(seq) THEN << >>
    ELSE (IF k \in keep THEN << seq[k] >> ELSE << >>) \o SubSeqOf(seq, keep, k + 1)

InitDraw ==
    /\ positions = << >>
    /\ supervision = NoSupervision
    /\ stages_to_complete = {}
    /\ runner = "none"
    /\ pc = "idle"
    /\ stack = << >>
    /\ lamella = 0
    /\ idx = 0
    /\ stage_i = 0
    /\ log = << >>
    /\ entry = << >>
    /\ prompt_positions = << >>
    /\ \E keep \in SUBSET (2..Len(OtherLayers)) :
          layers = SubSeqOf(OtherLayers, keep \cup { 1 }, 1)
    /\ last_draw = NoDraw
    /\ placement = NoPlacement
    /\ first_call = NoFirstCall

\* One call of draw_milling_patterns_in_napari.
Draw ==
    /\ \E milling_stages \in MillingStageLists,
          background_milling_stages \in BackgroundChoices,
          draw_crosshair \in BOOLEAN :
          /\ layers' = draw_milling_patterns_in_napari(
                           layers, milling_stages, draw_crosshair,
                           background_milling_stages)
          /\ last_draw' = [ called |-> TRUE, milling_stages |-> milling_stages,
                            background_milling_stages |-> background_milling_stages,
                            draw_crosshair |-> draw_crosshair ]
    /\ UNCHANGED placement
    /\ UNCHANGED << workflow_vars, first_call >>

NextDraw == Draw

SpecDraw == InitDraw /\ [][NextDraw]_vars

(***************************************************************************)
(* Properties of draw_milling_patterns_in_napari (checked under SpecDraw). *)
(***************************************************************************)
IsSupported(pattern_settings) ==
    pattern_settings.type \in DOMAIN NAPARI_DRAWING_FUNCTIONS

\* what a stage is expected to put in the layer: the shape of each of its
\* supported settings objects, in order, and the crosshair if there is any
ExpectedStageShapes(stage, draw_crosshair) ==
    LET supported == SelectSeq(stage.define, IsSupported)
        shapes == [ k \in DOMAIN supported |->
                      CallDrawingFn(NAPARI_DRAWING_FUNCTIONS[supported[k].type],
                                    supported[k], ImageShape) ]
    IN IF shapes = << >> THEN << >>
       ELSE IF draw_crosshair
            THEN shapes \o create_crosshair_shape(stage.point, ImageShape)
            ELSE shapes

RECURSIVE ExpectedShapes(_, _)
ExpectedShapes(stages, draw_crosshair) ==
    IF stages = << >> THEN << >>
    ELSE ExpectedStageShapes(Head(stages), draw_crosshair)
         \o ExpectedShapes(Tail(stages), draw_crosshair)

LastDrawExpected ==
    ExpectedShapes(last_draw.milling_stages \o last_draw.background_milling_stages,
                   last_draw.draw_crosshair)

\* C9: a settings object of a type without a drawing function is passed over:
\* after a draw call the "Milling Patterns" layer holds exactly the shapes of
\* the supported settings objects of every stage, in order (with each drawn
\* stage's crosshair), whatever unsupported objects stand among them.
C9_UnsupportedSkipped ==
    (last_draw.called /\ LastDrawExpected # << >>) =>
        \E k \in DOMAIN layers :
            /\ layers[k].name = "Milling Patterns"
            /\ layers[k].data = LastDrawExpected

\* C9 witness: a draw call was given a stage with an unsupported settings
\* object between two supported ones, and an unsupported-only stage before a
\* supported one.
C9_Witness ==
    /\ last_draw.called
    /\ Len(last_draw.milling_stages) = 2
    /\ \A k \in DOMAIN last_draw.milling_stages[1].define :
          ~IsSupported(last_draw.milling_stages[1].define[k])
    /\ \E i, j, k \in DOMAIN last_draw.milling_stages[2].define :
          /\ i < j /\ j < k
          /\ IsSupported(last_draw.milling_stages[2].define[i])
          /\ ~IsSupported(last_draw.milling_stages[2].define[j])
          /\ IsSupported(last_draw.milling_stages[2].define[k])
    /\ \E k \in DOMAIN layers : layers[k].name = "Milling Patterns"

\* C10 as stated: after a draw call, every shapes layer left in the viewer is
\* either named in IGNORE_SHAPES_LAYERS or was updated by this call (it is the
\* "Milling Patterns" layer and holds this call's shapes).
C10_NoStaleShapesLayer ==
    last_draw.called =>
        \A k \in DOMAIN layers :
            (layers[k].type = "shapes" /\ layers[k].name \notin IGNORE_SHAPES_LAYERS) =>
                /\ layers[k].name = "Milling Patterns"
                /\ LastDrawExpected # << >>
                /\ layers[k].data = LastDrawExpected

(***************************************************************************)
(* validate_pattern_placement and is_pattern_placement_valid               *)
(***************************************************************************)
\* Largest number of vertices of a shape given to validate_pattern_placement.
MaxVertices == 2

\* Largest number of settings objects a checked pattern defines.
MaxPatternSettings == 2

\* validate_pattern_placement(image_shape, shape): the loop over the
\* coordinates, returning False at the first one outside. The limits are in
\* half pixels, as the coordinates are.
RECURSIVE validate_pattern_placement(_, _)
validate_pattern_placement(image_shape, shape) ==
    LET x_lim == 2 * image_shape[2]
        y_lim == 2 * image_shape[1]
    IN IF shape = << >>
       THEN TRUE
       ELSE LET coordinate == Head(shape)
                x_coord == coordinate[2]
                y_coord == coordinate[1]
            IN IF x_coord < 0 \/ x_coord > x_lim
               THEN FALSE
               ELSE IF y_coord < 0 \/ y_coord > y_lim
                    THEN FALSE
                    ELSE validate_pattern_placement(image_shape, Tail(shape))

\* what a call gives back: str(True), str(False), or the exception it raises
Returned(b) == IF b THEN "True" ELSE "False"

\* napari_shape = draw_func(...); validate_pattern_placement(image.data.shape,
\* napari_shape). convert_bitmap_pattern_to_napari_image returns the pair
\* (img_array, translate_position), so the first `coordinate` of the loop is
\* the image array: coordinate[1] is its second row (IndexError if it has only
\* one), and `x_coord < 0 or ...` on a row of more than one value raises
\* ValueError (the truth value of such an array is ambiguous). The bitmaps of
\* the model are more than one pixel wide.
is_valid_placement(draw_func, pattern_settings, image_shape) ==
    IF draw_func = "convert_bitmap_pattern_to_napari_image"
    THEN IF pattern_settings.height < 2 THEN "IndexError" ELSE "ValueError"
    ELSE Returned(validate_pattern_placement(
                      image_shape,
                      CallDrawingFn(draw_func, pattern_settings, image_shape)))

\* is_pattern_placement_valid(pattern, image), pattern not a FiducialPattern:
\* the loop over pattern.define()
RECURSIVE is_pattern_placement_valid(_, _)
is_pattern_placement_valid(define, image_shape) ==
    IF define = << >>
    THEN "True"
    ELSE LET pattern_settings == Head(define)
             draw_func == DictGet(NAPARI_DRAWING_FUNCTIONS, pattern_settings.type)
         IN IF draw_func = "None"
            THEN "False"
            ELSE LET valid == is_valid_placement(draw_func, pattern_settings,
                                                 image_shape)
                 IN IF valid = "True"
                    THEN is_pattern_placement_valid(Tail(define), image_shape)
                    ELSE valid

\* Vertices around the edges of the image, in half pixels: (y2, x2).
VertexChoices ==
    { << y2, x2 >> : y2 \in { -1, 0, 2 * ImageShape[1], 2 * ImageShape[1] + 1 },
                     x2 \in { -1, 0, 17, 2 * ImageShape[2], 2 * ImageShape[2] + 1 } }

ShapeChoices == UNION { [ 1..n -> VertexChoices ] : n \in 0..MaxVertices }

\* The settings objects of the checked patterns: inside the image, touching
\* its edge, across it, and of a type without a drawing function.
PatternSettingsChoices ==
    { RectangleSettings,
      Settings("FibsemRectangleSettings", 9, 6, 6, 4),
      Settings("FibsemRectangleSettings", 10, 0, 6, 4),
      Settings("FibsemRectangleSettings", 0, 7, 6, 4),
      CircleSettings,
      [ CircleSettings EXCEPT !.centre_x = -10 ],
      LineSettings,
      [ LineSettings EXCEPT !.end_x = 13 ],
      BitmapSettings,
      UnsupportedSettings }

PatternChoices ==
    UNION { [ 1..n -> PatternSettingsChoices ] : n \in 0..MaxPatternSettings }

InitPlacement ==
    /\ positions = << >>
    /\ supervision = NoSupervision
    /\ stages_to_complete = {}
    /\ runner = "none"
    /\ pc = "idle"
    /\ stack = << >>
    /\ lamella = 0
    /\ idx = 0
    /\ stage_i = 0
    /\ log = << >>
    /\ entry = << >>
    /\ prompt_positions = << >>
    /\ layers = << >>
    /\ last_draw = NoDraw
    /\ placement = NoPlacement
    /\ first_call = NoFirstCall

\* One call of validate_pattern_placement on a list of vertices.
ValidatePatternPlacement ==
    /\ \E shape \in ShapeChoices :
          placement' = [ fn     |-> "validate_pattern_placement",
                         shape  |-> shape,
                         define |-> << >>,
                         ret    |-> Returned(validate_pattern_placement(ImageShape, shape)) ]
    /\ UNCHANGED << layers, last_draw >>
    /\ UNCHANGED << workflow_vars, first_call >>

\* One call of is_pattern_placement_valid on a pattern that is not a fiducial.
IsPatternPlacementValid ==
    /\ \E define \in PatternChoices :
          placement' = [ fn     |-> "is_pattern_placement_valid",
                         shape  |-> << >>,
                         define |-> define,
                         ret    |-> is_pattern_placement_valid(define, ImageShape) ]
    /\ UNCHANGED << layers, last_draw >>
    /\ UNCHANGED << workflow_vars, first_call >>

NextPlacement == ValidatePatternPlacement \/ IsPatternPlacementValid

SpecPlacement == InitPlacement /\ [][NextPlacement]_vars

\* every vertex (y, x) has 0 <= x <= image width and 0 <= y <= image height
WithinImage(shape) ==
    \A k \in DOMAIN shape :
        /\ 0 <= shape[k][2] /\ shape[k][2] <= 2 * ImageShape[2]
        /\ 0 <= shape[k][1] /\ shape[k][1] <= 2 * ImageShape[1]

\* the vertices a settings object of a supported type is converted to; for a
\* bitmap, the translate position of the image
ConvertedShape(pattern_settings) ==
    CallDrawingFn(NAPARI_DRAWING_FUNCTIONS[pattern_settings.type], pattern_settings,
                  ImageShape)

\* C11 as stated: validate_pattern_placement returns True exactly when every
\* vertex of the shape is within the image, and False otherwise;
\* is_pattern_placement_valid on a non-fiducial pattern returns True exactly
\* when every settings object of the pattern has a supported type and a
\* converted shape within the image, and False otherwise.
C11_PlacementValidity ==
    /\ placement.fn = "validate_pattern_placement" =>
          placement.ret = Returned(WithinImage(placement.shape))
    /\ placement.fn = "is_pattern_placement_valid" =>
          placement.ret =
              Returned(\A k \in DOMAIN placement.define :
                           /\ IsSupported(placement.define[k])
                           /\ WithinImage(ConvertedShape(placement.define[k])))

(***************************************************************************)
(* Properties of run_spot_burn_workflow (checked under SpecSpotBurn).      *)
(***************************************************************************)
\* the four calls made for position i when the user answers Continue
SpotBurnSteps(i) ==
    << MoveEvent(i), ImagesEvent(i, "ref_spot_burn_start"),
       SpotBurnAskEvent(i, TRUE), ImagesEvent(i, "ref_spot_burn_end") >>

\* the calls made for positions 1..n, in list order
RECURSIVE SpotBurnLog(_)
SpotBurnLog(n) == IF n = 0 THEN << >> ELSE SpotBurnLog(n - 1) \o SpotBurnSteps(n)

SpotBurnReturned == runner = "run_spot_burn_workflow" /\ pc = "done"

C17_ExitStopsLoop ==
    runner = "run_spot_burn_workflow" =>
        \A k \in DOMAIN log :
            (IsAsk(log[k]) /\ ~log[k].ret) =>
                /\ k = Len(log)
                /\ pc = "done"
                /\ \A j \in DOMAIN log :
                      /\ log[j].pos <= log[k].pos
                      /\ log[j] # ImagesEvent(log[k].pos, "ref_spot_burn_end")
                /\ \A p \in 1..(log[k].pos - 1) :
                      \E i, j \in 1..(k - 1) :
                          /\ i < j
                          /\ log[i] = ImagesEvent(p, "ref_spot_burn_start")
                          /\ log[j] = ImagesEvent(p, "ref_spot_burn_end")

\* C17 witness: the user answered Continue for the first position and Exit
\* for the second.
C17_Witness ==
    /\ SpotBurnReturned
    /\ Len(positions) = 2
    /\ \E k \in DOMAIN log : IsAsk(log[k]) /\ ~log[k].ret /\ log[k].pos = 2

(***************************************************************************)
(* A runner called a second time at once, on the experiment the first call *)
(* returned and with the same stages_to_complete.                          *)
(***************************************************************************)
BasicRunners ==
    { "run_trench_milling", "run_undercut_milling", "run_setup_lamella",
      "run_lamella_milling" }

\* The first call of one of the four runners.
CallBasic ==
    /\ pc = "idle"
    /\ \E r \in BasicRunners :
       \E stc \in (IF r \in TakesStagesToComplete
                   THEN StagesToCompleteChoices ELSE { {} }) :
          /\ runner' = r
          /\ stages_to_complete' = stc
          /\ pc' = EntryLabel[r]
    /\ supervision' = NoSupervision
    /\ stack' = << >>
    /\ lamella' = 0
    /\ idx' = 0
    /\ stage_i' = 0
    /\ log' = << >>
    /\ entry' = positions
    /\ prompt_positions' = << >>
    /\ UNCHANGED positions
    /\ UNCHANGED << napari_vars, first_call >>

\* The same runner called again on the experiment it has just returned.
CallAgain ==
    /\ pc = "done"
    /\ ~first_call.made
    /\ first_call' = [ made |-> TRUE, entry |-> entry, log |-> log ]
    /\ pc' = EntryLabel[runner]
    /\ stack' = << >>
    /\ lamella' = 0
    /\ idx' = 0
    /\ stage_i' = 0
    /\ log' = << >>
    /\ entry' = positions
    /\ prompt_positions' = << >>
    /\ UNCHANGED << positions, supervision, stages_to_complete, runner >>
    /\ UNCHANGED napari_vars

NextRepeat ==
    \/ CallBasic
    \/ CallAgain
    \/ run_trench_milling_for
    \/ run_trench_milling_fn
    \/ run_trench_milling_end
    \/ run_undercut_milling_for
    \/ run_undercut_milling_fn
    \/ run_undercut_milling_end
    \/ run_setup_lamella_for
    \/ run_setup_lamella_fn
    \/ run_setup_lamella_end
    \/ run_lamella_milling_stage
    \/ run_lamella_milling_for
    \/ run_lamella_milling_fn
    \/ run_lamella_milling_end
    \/ run_lamella_milling_finish_for
    \/ run_lamella_milling_finish_end

SpecRepeat == Init /\ [][NextRepeat]_vars

\* C20: a runner called a second time at once, on the experiment the first
\* call returned and with the same stages_to_complete, starts no stage, runs
\* no stage function and leaves every position as it is.
C20_RepeatedCallIdle ==
    first_call.made =>
        /\ \A k \in DOMAIN log : ~IsStart(log[k]) /\ ~IsFn(log[k])
        /\ positions = entry

\* C20 witness: the second call of run_lamella_milling has returned, the first
\* having taken one position through its stages and seen another one fail.
C20_Witness ==
    /\ first_call.made
    /\ pc = "done"
    /\ runner = "run_lamella_milling"
    /\ \E j, k \in DOMAIN first_call.log :
          /\ IsFn(first_call.log[j]) /\ first_call.log[j].ret
          /\ IsFn(first_call.log[k]) /\ ~first_call.log[k].ret
    /\ \E p \in DOMAIN positions :
          first_call.entry[p].workflow = "SetupLamella"
              /\ positions[p].workflow = "Finished"

Next ==
    \/ Call
    \/ run_trench_milling_for
    \/ run_trench_milling_fn
    \/ run_trench_milling_end
    \/ run_undercut_milling_for
    \/ run_undercut_milling_fn
    \/ run_undercut_milling_end
    \/ run_setup_lamella_for
    \/ run_setup_lamella_fn
    \/ run_setup_lamella_end
    \/ run_lamella_milling_stage
    \/ run_lamella_milling_for
    \/ run_lamella_milling_fn
    \/ run_lamella_milling_end
    \/ run_lamella_milling_finish_for
    \/ run_lamella_milling_finish_end
    \/ run_autolamella_setup
    \/ run_autolamella_supervise
    \/ run_autolamella_return
    \/ run_autolamella_waffle_trench
    \/ run_autolamella_waffle_undercut
    \/ run_autolamella_waffle_setup
    \/ run_autolamella_waffle_return

Spec == Init /\ [][Next]_vars

====
